---- MODULE Spec2Model ----
(***************************************************************************)
(* The to-do web client of the workshop (src/unnamed/part_000, lines       *)
(* 1-365, and its earlier variant src/app.js) running against the hosted   *)
(* backend: one browser tab, the todos table behind its row-level          *)
(* policies, and the requests in flight between the two.                   *)
(*                                                                         *)
(* Every async handler is split at its awaits: the click (or callback)     *)
(* runs to the first await and sends a request, the backend serves the     *)
(* request, and the continuation runs when the reply is received.          *)
(***************************************************************************)
EXTENDS Integers, Sequences, FiniteSets, TLC

(***************************************************************************)
(* Bounds of the model.                                                    *)
(***************************************************************************)
\* user actions and spontaneous backend events in one behaviour
MaxClicks == 2
\* requests that may be in flight at the same time
MaxInflight == 2
\* lines of the .env file
MaxLines == 3
\* records the catalog returns for one artist
MaxRecords == 2

(***************************************************************************)
(* Values.                                                                 *)
(***************************************************************************)
Users == {"A", "B"}
NoUser == "none"
NoError == ""

\* user.id and session.user.email of an account
Id(u) == "uid-" \o u
Email(u) == u \o "@example.com"

\* text typed in the #new-todo field or at the edit prompt, as characters
TaskTexts == { <<>>, <<" ">>, <<"a", " ">> }

\* the two client sources of the repository
Impls == {"part_000", "app.js"}

RECURSIVE TrimStart(_)
TrimStart(s) ==
    IF s # <<>> /\ Head(s) = " " THEN TrimStart(Tail(s)) ELSE s

RECURSIVE TrimEnd(_)
TrimEnd(s) ==
    IF s # <<>> /\ s[Len(s)] = " " THEN TrimEnd(SubSeq(s, 1, Len(s) - 1)) ELSE s

\* String.prototype.trim
Trim(s) == TrimEnd(TrimStart(s))

(***************************************************************************)
(* The configuration: the .env file and its parser.  A line is a sequence  *)
(* of symbols: the two names, "=", "#", a blank, and the two values.       *)
(***************************************************************************)
UrlName == "SUPABASE_URL"
KeyName == "SUPABASE_ANON_KEY"
Undefined == << "undefined" >>

\* lines of a .env file, as text.split("\n") yields them
EnvLines ==
    { << UrlName, "=", "https://x.supabase.co" >>,
      << KeyName, "=", "anon-key" >>,
      << " ", KeyName, " ", "=", " ", "anon", "=", "key", " " >>,
      << "#", UrlName, "=", "https://x.supabase.co" >>,
      << >>,
      << " " >>,
      << " ", "#", UrlName, "=", "https://x.supabase.co" >>,
      << UrlName >>,
      << KeyName, "=" >> }

RECURSIVE SeqsUpTo(_, _)
SeqsUpTo(S, n) ==
    IF n = 0 THEN { << >> }
    ELSE LET shorter == SeqsUpTo(S, n - 1) IN
         shorter \cup { Append(t, x) : t \in shorter, x \in S }

EnvTexts == SeqsUpTo(EnvLines, MaxLines)

\* the .env file of the guide: one line for each connection parameter
ValidEnv == << << UrlName, "=", "https://x.supabase.co" >>,
               << KeyName, "=", "anon-key" >> >>

RECURSIVE SplitEq(_)
\* line.split("=")
SplitEq(s) ==
    IF \A k \in 1..Len(s) : s[k] # "=" THEN << s >>
    ELSE LET k == CHOOSE i \in 1..Len(s) :
                      s[i] = "=" /\ \A j \in 1..(i - 1) : s[j] # "="
         IN  << SubSeq(s, 1, k - 1) >> \o SplitEq(SubSeq(s, k + 1, Len(s)))

RECURSIVE JoinEq(_)
\* values.join("=")
JoinEq(pieces) ==
    IF pieces = << >> THEN << >>
    ELSE IF Len(pieces) = 1 THEN pieces[1]
    ELSE pieces[1] \o << "=" >> \o JoinEq(Tail(pieces))

\* line.startsWith("#")
StartsWithHash(line) == line # << >> /\ Head(line) = "#"

\* config[key] = value
Assign(cfg, key, value) ==
    [ k \in DOMAIN cfg \cup {key} |-> IF k = key THEN value ELSE cfg[k] ]

\* ParseLine that takes the text between the first and the second "="
ParseLine_SecondPiece(cfg, line) ==
    IF Trim(line) # << >> /\ ~StartsWithHash(line)
    THEN Assign(cfg, Trim(Head(SplitEq(line))),
                     IF Len(SplitEq(line)) > 1 THEN Trim(SplitEq(line)[2])
                                               ELSE << >>)
    ELSE cfg

\* the body of the forEach callback for one line
ParseLine(cfg, line) ==
    IF Trim(line) # << >> /\ ~StartsWithHash(line)
    THEN Assign(cfg, Trim(Head(SplitEq(line))),
                     Trim(JoinEq(Tail(SplitEq(line)))))
    ELSE cfg

RECURSIVE ParseLines(_, _)
\* text.split("\n").forEach(...)
ParseLines(cfg, lines) ==
    IF lines = << >> THEN cfg
    ELSE ParseLines(ParseLine(cfg, Head(lines)), Tail(lines))

\* const config = {}
EmptyConfig == [ k \in {} |-> << >> ]

\* loadConfig() after its awaits: the object it returns for a fetched text
loadConfig(lines) == ParseLines(EmptyConfig, lines)

\* config.SUPABASE_URL, config.SUPABASE_ANON_KEY
Lookup(cfg, name) ==
    IF << name >> \in DOMAIN cfg THEN cfg[<< name >>] ELSE Undefined

\* a connection parameter the client cannot connect with
Falsy(v) == v = Undefined \/ v = << >>

NoClient == [state |-> "none", url |-> Undefined, key |-> Undefined]

\* supabase.createClient(SUPABASE_URL, SUPABASE_ANON_KEY): the library is
\* not part of the repository; given a parameter it cannot connect with it
\* may return a client or throw, otherwise it returns a client
createClient(url, key) ==
    { [state |-> "created", url |-> url, key |-> key] } \cup
    IF Falsy(url) \/ Falsy(key)
    THEN { [state |-> "threw", url |-> url, key |-> key] }
    ELSE {}

VARIABLES
    impl,            \* which client source is loaded in the page
    envText,         \* the lines of the .env file the page fetches
    config,          \* the object loadConfig returned
    supabaseClient,  \* the client created at startup, and its parameters
    todos,           \* the rows of the todos table
    nextId,          \* the table's auto-increment / now() counter
    session,         \* the account of the client's stored session
    authEvents,      \* session-change notifications not yet delivered
    lastEvent,       \* argument of the latest onAuthStateChange callback
    authView,        \* authView.style.display
    appView,         \* appView.style.display
    userEmail,       \* userEmailSpan.textContent
    todoList,        \* rendered items of #todo-list
    completedList,   \* rendered items of #completed-list
    newTodo,         \* value of the #new-todo input
    reqs,            \* requests in flight and replies not yet received
    alerted,         \* text of the alert() shown by the latest step
    logged,          \* whether the latest step called console.error
    ran,             \* the handler, callback or backend step that ran latest
    clicks,          \* number of user actions taken so far
    artists,         \* music library: rows of the artists table
    albums,          \* music library: rows of the albums table
    songs,           \* music library: rows of the songs table
    saved_artists,   \* the run's mapping of artist names to ids
    saved_albums,    \* the run's mapping of (artist id, title) to ids
    artist_queue,    \* the artists of ARTISTS the run has still to process
    songs_data       \* the records fetched for the artist being processed

vars == << impl, envText, config, supabaseClient, todos, nextId, session, authEvents, lastEvent, authView,
           appView, userEmail, todoList, completedList, newTodo, reqs,
           alerted, logged, ran, clicks, artists, albums, songs,
           saved_artists, saved_albums, artist_queue, songs_data >>

\* the state of the music library generator, a program of its own
library == << artists, albums, songs >>
ingest == << library, saved_artists, saved_albums, artist_queue, songs_data >>

\* the generator has not been started
NotRunning ==
    /\ artists = {}
    /\ albums = {}
    /\ songs = {}
    /\ saved_artists = << >>
    /\ saved_albums = << >>
    /\ artist_queue = << >>
    /\ songs_data = << >>

\* what startup leaves to the rest of the script
startup == << envText, config, supabaseClient >>

backend == << todos, nextId >>
views == << authView, appView, userEmail >>
lists == << todoList, completedList >>

NoAlert == "<no alert>"
NoEvent == "<no event>"

(***************************************************************************)
(* The todos table and its row-level policies.                             *)
(***************************************************************************)
Row(id, task, done, u) ==
    [id |-> id, created_at |-> id, task |-> task, is_complete |-> done,
     user_id |-> Id(u)]

\* the table as earlier visits left it
SeedRows == { Row(1, <<"a">>, FALSE, "A"),
              Row(2, <<"b">>, TRUE, "A"),
              Row(3, <<"a">>, FALSE, "B") }

\* auth.uid() of a request carrying the token of account t
AuthUid(t) == IF t = NoUser THEN "" ELSE Id(t)

\* USING (user_id = auth.uid())
Policy(row, t) == t # NoUser /\ row.user_id = AuthUid(t)

RlsMessage == "new row violates row-level security policy for table \"todos\""
NetMessage == "Failed to fetch"
LoginMessage == "Invalid login credentials"

RECURSIVE OrderDesc(_)
\* .order("created_at", { ascending: false })
OrderDesc(rows) ==
    IF rows = {} THEN <<>>
    ELSE LET top == CHOOSE r \in rows :
                        \A q \in rows : q.created_at < r.created_at
                                        \/ (q.created_at = r.created_at /\ q.id <= r.id)
         IN  <<top>> \o OrderDesc(rows \ {top})

\* Array.prototype.filter
RECURSIVE Filter(_, _)
Filter(s, done) ==
    IF s = <<>> THEN <<>>
    ELSE IF Head(s).is_complete = done
         THEN <<Head(s)>> \o Filter(Tail(s), done)
         ELSE Filter(Tail(s), done)

\* .sort((a, b) => new Date(b.created_at) - new Date(a.created_at)), stable
RECURSIVE SortDesc(_)
SortDesc(s) ==
    IF s = <<>> THEN <<>>
    ELSE LET i == CHOOSE k \in 1..Len(s) :
                      /\ \A j \in 1..Len(s) : s[j].created_at <= s[k].created_at
                      /\ \A j \in 1..(k - 1) : s[j].created_at < s[k].created_at
         IN  <<s[i]>> \o SortDesc(SubSeq(s, 1, i - 1) \o SubSeq(s, i + 1, Len(s)))

(***************************************************************************)
(* Requests.                                                               *)
(***************************************************************************)
NoBody == [none |-> TRUE]

\* a request as it leaves the client: it carries the token of the session
\* the client holds at that moment
Req(kind, op, body, eqId, eqUser) ==
    [rid |-> 1, kind |-> kind, op |-> op, stage |-> "sent",
     token |-> session, body |-> body, eqId |-> eqId, eqUser |-> eqUser,
     error |-> NoError, data |-> <<>>, user |-> NoUser]

Reply(r, error, data, user) ==
    [r EXCEPT !.stage = "replied", !.error = error, !.data = data, !.user = user]

\* requests that are equal in every other field are told apart by rid
Rid(others, rec) ==
    CHOOSE n \in 1..(Cardinality(others) + 1) :
        /\ [rec EXCEPT !.rid = n] \notin others
        /\ \A m \in 1..(n - 1) : [rec EXCEPT !.rid = m] \in others

\* Put where a request equal to one in flight is not sent again
Put_Merge(others, rec) == others \cup { rec }

\* the requests in flight once rec has joined the others
Put(others, rec) == others \cup { [rec EXCEPT !.rid = Rid(others, rec)] }

\* the same for the requests a handler sends: none or one
PutAll(others, sends) ==
    IF sends = {} THEN others ELSE Put(others, CHOOSE rec \in sends : TRUE)

CanSend == Cardinality(reqs) < MaxInflight

Sent(kind) == { r \in reqs : r.stage = "sent" /\ r.kind = kind }
Replied(op, kind) ==
    { r \in reqs : r.stage = "replied" /\ r.op = op /\ r.kind = kind }

Init ==
    /\ impl \in Impls
    /\ envText = ValidEnv
    /\ config = loadConfig(envText)
    /\ supabaseClient \in createClient(Lookup(config, UrlName),
                                       Lookup(config, KeyName))
    /\ todos = SeedRows
    /\ nextId = 4
    /\ session \in {NoUser, "A"}
    /\ authEvents = << session >>
    /\ lastEvent = NoEvent
    /\ authView = ""
    /\ appView = ""
    /\ userEmail = ""
    /\ todoList = <<>>
    /\ completedList = <<>>
    /\ newTodo = <<>>
    /\ reqs = {}
    /\ alerted = NoAlert
    /\ logged = FALSE
    /\ ran = "load"
    /\ clicks = 0
    /\ NotRunning


\* what a step that shows no dialog and logs nothing leaves behind
Quiet == alerted' = NoAlert /\ logged' = FALSE

\* the user acts on the controls of a view once the callback has displayed it
AppControls == appView = "block"
AuthControls == authView = "block"

UserActs == clicks < MaxClicks /\ clicks' = clicks + 1

(***************************************************************************)
(* The backend: each action serves one request that was sent.  A request   *)
(* may also be lost on the way (fail), which has no effect on the table.   *)
(***************************************************************************)
client == << impl, startup, ingest, session, authEvents, lastEvent, authView, appView,
             userEmail, todoList, completedList, newTodo, clicks >>

\* select * order by created_at desc, under the SELECT policy
ServeSelect ==
    /\ ran' = "ServeSelect"
    /\ \E r \in Sent("select"), fail \in BOOLEAN :
        /\ reqs' = Put(reqs \ {r},
                       IF fail
                 THEN Reply(r, NetMessage, <<>>, NoUser)
                 ELSE Reply(r, NoError,
                            OrderDesc({ row \in todos : Policy(row, r.token) }),
                            NoUser))
        /\ Quiet
        /\ UNCHANGED << backend, client >>

\* insert under the INSERT policy: WITH CHECK (user_id = auth.uid())
InsertAllowed(r) ==
    /\ r.token # NoUser
    /\ "user_id" \in DOMAIN r.body
    /\ r.body.user_id = AuthUid(r.token)

ServeInsert ==
    /\ ran' = "ServeInsert"
    /\ \E r \in Sent("insert"), fail \in BOOLEAN :
        /\ IF fail
           THEN /\ reqs' = Put(reqs \ {r}, Reply(r, NetMessage, <<>>, NoUser))
                /\ UNCHANGED backend
           ELSE IF ~InsertAllowed(r)
           THEN /\ reqs' = Put(reqs \ {r}, Reply(r, RlsMessage, <<>>, NoUser))
                /\ UNCHANGED backend
           ELSE /\ todos' = todos \cup
                       { [id |-> nextId, created_at |-> nextId,
                          task |-> r.body.task,
                          is_complete |-> r.body.is_complete,
                          user_id |-> r.body.user_id] }
                /\ nextId' = nextId + 1
                /\ reqs' = Put(reqs \ {r}, Reply(r, NoError, <<>>, NoUser))
        /\ Quiet
        /\ UNCHANGED client

\* Matches without the .eq("id", ...) filter
Matches_NoId(row, r) ==
    /\ Policy(row, r.token)
    /\ r.eqUser # "" => row.user_id = r.eqUser

\* Matches without the policy and without the .eq("user_id", ...) filter
Matches_AnyOwner(row, r) ==
    r.eqId # 0 => row.id = r.eqId

\* the rows a filtered update or delete reaches: .eq(...) and the policy
Matches(row, r) ==
    /\ Policy(row, r.token)
    /\ r.eqId # 0 => row.id = r.eqId
    /\ r.eqUser # "" => row.user_id = r.eqUser

\* a row with the columns of the request body replaced
Patch(row, body) ==
    [f \in DOMAIN row |-> IF f \in DOMAIN body THEN body[f] ELSE row[f]]

ServeUpdate ==
    /\ ran' = "ServeUpdate"
    /\ \E r \in Sent("update"), fail \in BOOLEAN :
        /\ IF fail
           THEN /\ reqs' = Put(reqs \ {r}, Reply(r, NetMessage, <<>>, NoUser))
                /\ UNCHANGED backend
           ELSE IF \E row \in todos :
                       Matches(row, r) /\ ~Policy(Patch(row, r.body), r.token)
           THEN /\ reqs' = Put(reqs \ {r}, Reply(r, RlsMessage, <<>>, NoUser))
                /\ UNCHANGED backend
           ELSE /\ todos' = { IF Matches(row, r) THEN Patch(row, r.body) ELSE row :
                              row \in todos }
                /\ UNCHANGED nextId
                /\ reqs' = Put(reqs \ {r}, Reply(r, NoError, <<>>, NoUser))
        /\ Quiet
        /\ UNCHANGED client

ServeDelete ==
    /\ ran' = "ServeDelete"
    /\ \E r \in Sent("delete"), fail \in BOOLEAN :
        /\ IF fail
           THEN /\ reqs' = Put(reqs \ {r}, Reply(r, NetMessage, <<>>, NoUser))
                /\ UNCHANGED backend
           ELSE /\ todos' = { row \in todos : ~Matches(row, r) }
                /\ UNCHANGED nextId
                /\ reqs' = Put(reqs \ {r}, Reply(r, NoError, <<>>, NoUser))
        /\ Quiet
        /\ UNCHANGED client

(***************************************************************************)
(* List: fetchTodos and the rendering of its reply.                        *)
(***************************************************************************)
\* the call of fetchTodos up to its await: one select request
fetchTodos == Req("select", "fetchTodos", NoBody, 0, "")

\* the rendered item keeps the row and the flag its listeners closed over
createTodoElement(todo, isCompleted) ==
    [todo |-> todo, isCompleted |-> isCompleted]

RenderItems(s, isCompleted) ==
    [i \in 1..Len(s) |-> createTodoElement(s[i], isCompleted)]

\* incompleteTodos without the filter
incompleteTodos_All(data) == data

incompleteTodos(data) == Filter(data, FALSE)

completedTodos(data) ==
    IF impl = "app.js" THEN SortDesc(Filter(data, TRUE)) ELSE Filter(data, TRUE)

\* fetchTodosReply that calls fetchTodos again when the fetch failed
fetchTodosReply_Retry ==
    /\ ran' = "fetchTodosReply"
    /\ \E r \in Replied("fetchTodos", "select") :
        /\ IF r.error # NoError
           THEN /\ logged' = TRUE
                /\ reqs' = Put(reqs \ {r}, fetchTodos)
                /\ UNCHANGED lists
           ELSE /\ logged' = FALSE
                /\ reqs' = reqs \ {r}
                /\ todoList' = RenderItems(incompleteTodos(r.data), FALSE)
                /\ completedList' = RenderItems(completedTodos(r.data), TRUE)
        /\ alerted' = NoAlert
        /\ UNCHANGED << impl, startup, ingest, backend, session, authEvents, lastEvent, views,
                        newTodo, clicks >>

\* fetchTodosReply without the two lines that clear the lists
fetchTodosReply_Append ==
    /\ ran' = "fetchTodosReply"
    /\ \E r \in Replied("fetchTodos", "select") :
        /\ reqs' = reqs \ {r}
        /\ IF r.error # NoError
           THEN /\ logged' = TRUE
                /\ UNCHANGED lists
           ELSE /\ logged' = FALSE
                /\ todoList' =
                       todoList \o RenderItems(incompleteTodos(r.data), FALSE)
                /\ completedList' =
                       completedList \o RenderItems(completedTodos(r.data), TRUE)
        /\ alerted' = NoAlert
        /\ UNCHANGED << impl, startup, ingest, backend, session, authEvents, lastEvent, views,
                        newTodo, clicks >>

\* fetchTodos after its await
\* fetchTodosReply that clears the lists before it looks at the error
fetchTodosReply_ClearFirst ==
    /\ ran' = "fetchTodosReply"
    /\ \E r \in Replied("fetchTodos", "select") :
        /\ reqs' = reqs \ {r}
        /\ IF r.error # NoError
           THEN /\ logged' = TRUE
                /\ todoList' = <<>>
                /\ completedList' = <<>>
           ELSE /\ logged' = FALSE
                /\ todoList' = RenderItems(incompleteTodos(r.data), FALSE)
                /\ completedList' = RenderItems(completedTodos(r.data), TRUE)
        /\ alerted' = NoAlert
        /\ UNCHANGED << impl, startup, ingest, backend, session, authEvents,
                        lastEvent, views, newTodo, clicks >>

fetchTodosReply ==
    /\ ran' = "fetchTodosReply"
    /\ \E r \in Replied("fetchTodos", "select") :
        /\ reqs' = reqs \ {r}
        /\ IF r.error # NoError
           THEN /\ logged' = TRUE
                /\ UNCHANGED lists
           ELSE /\ logged' = FALSE
                /\ todoList' = RenderItems(incompleteTodos(r.data), FALSE)
                /\ completedList' = RenderItems(completedTodos(r.data), TRUE)
        /\ alerted' = NoAlert
        /\ UNCHANGED << impl, startup, ingest, backend, session, authEvents, lastEvent, views,
                        newTodo, clicks >>

(***************************************************************************)
(* Session management: the onAuthStateChange callback.                     *)
(***************************************************************************)
\* ShowApp without the line that sets the banner
ShowApp_NoBanner(user) ==
    /\ authView' = "none"
    /\ appView' = "block"
    /\ UNCHANGED userEmail

\* the logged-in branch shows the app and the identity banner
ShowApp(user) ==
    /\ authView' = "none"
    /\ appView' = "block"
    /\ userEmail' = Email(user)

\* ShowAuth without the line that hides the app
ShowAuth_KeepApp ==
    /\ authView' = "block"
    /\ UNCHANGED << appView, userEmail >>

\* the logged-out branch shows the login form
ShowAuth ==
    /\ authView' = "block"
    /\ appView' = "none"
    /\ UNCHANGED userEmail

\* the logged-out branch empties the lists it can reach: app.js declares
\* completedList inside fetchTodos, out of the callback's reach
ClearLists ==
    /\ todoList' = <<>>
    /\ completedList' = IF impl = "app.js" THEN completedList ELSE <<>>

\* onAuthStateChange that loads the todos only when the identity changed
onAuthStateChange_OnlyOnChange ==
    /\ ran' = "onAuthStateChange"
    /\ authEvents # <<>>
    /\ LET s == Head(authEvents) IN
        /\ lastEvent' = s
        /\ IF s # NoUser
           THEN /\ CanSend
                /\ ShowApp(s)
                /\ reqs' = IF s = lastEvent THEN reqs ELSE Put(reqs, fetchTodos)
                /\ UNCHANGED lists
           ELSE /\ ShowAuth
                /\ ClearLists
                /\ UNCHANGED reqs
    /\ authEvents' = Tail(authEvents)
    /\ Quiet
    /\ UNCHANGED << impl, startup, ingest, backend, session, newTodo, clicks >>

onAuthStateChange ==
    /\ ran' = "onAuthStateChange"
    /\ authEvents # <<>>
    /\ LET s == Head(authEvents) IN
        /\ lastEvent' = s
        /\ IF s # NoUser
           THEN /\ CanSend
                /\ ShowApp(s)
                /\ reqs' = Put(reqs, fetchTodos)
                /\ UNCHANGED lists
           ELSE /\ ShowAuth
                /\ ClearLists
                /\ UNCHANGED reqs
    /\ authEvents' = Tail(authEvents)
    /\ Quiet
    /\ UNCHANGED << impl, startup, ingest, backend, session, newTodo, clicks >>

(***************************************************************************)
(* Rendered items and their listeners.                                     *)
(***************************************************************************)
Rendered ==
    { todoList[i] : i \in 1..Len(todoList) } \cup
    { completedList[i] : i \in 1..Len(completedList) }

\* window.prompt: cancelled (null) or the text entered
PromptAnswers ==
    { [cancelled |-> TRUE, text |-> <<>>] } \cup
    { [cancelled |-> FALSE, text |-> t] : t \in TaskTexts }

\* the steps of a handler other than its requests and dialogs
Handler ==
    UNCHANGED << impl, startup, ingest, backend, session, authEvents, lastEvent, views >>

\* toggleTodoComplete without the .eq("id", todoId) filter
toggleTodoComplete_NoFilter(todoId, isComplete) ==
    Req("update", "toggle", [is_complete |-> ~isComplete], 0, "")

\* toggleTodoComplete that negates the flag of the stored row
toggleTodoComplete_Stored(todoId, isComplete) ==
    Req("update", "toggle",
        [is_complete |-> IF \E row \in todos : row.id = todoId
                         THEN ~(CHOOSE row \in todos : row.id = todoId).is_complete
                         ELSE ~isComplete],
        todoId, "")

\* toggleTodoComplete(todoId, isComplete) up to its await
toggleTodoComplete(todoId, isComplete) ==
    Req("update", "toggle", [is_complete |-> ~isComplete], todoId, "")

checkboxClick ==
    /\ ran' = "checkboxClick"
    /\ UserActs
    /\ AppControls
    /\ CanSend
    /\ \E item \in Rendered :
           reqs' = Put(reqs,
                       toggleTodoComplete(item.todo.id, item.isCompleted))
    /\ Quiet
    /\ Handler
    /\ UNCHANGED << lists, newTodo >>

ToggleErrorPrefix(r) ==
    IF impl = "app.js"
    THEN IF r.body.is_complete THEN "Error marking complete: "
                               ELSE "Error marking incomplete: "
    ELSE "Error updating todo: "

toggleTodoCompleteReply ==
    /\ ran' = "toggleTodoCompleteReply"
    /\ \E r \in Replied("toggle", "update") :
        /\ IF r.error # NoError
           THEN /\ alerted' = ToggleErrorPrefix(r) \o r.error
                /\ reqs' = reqs \ {r}
           ELSE /\ alerted' = NoAlert
                /\ reqs' = Put(reqs \ {r}, fetchTodos)
        /\ logged' = FALSE
        /\ Handler
        /\ UNCHANGED << lists, newTodo, clicks >>

\* the text editTodo sends, or no update at all
EditSends(answer, currentTask) ==
    IF impl = "app.js"
    THEN ~answer.cancelled /\ answer.text # <<>> /\ answer.text # currentTask
    ELSE ~answer.cancelled /\ answer.text # <<>> /\ Trim(answer.text) # currentTask

EditText(answer) ==
    IF impl = "app.js" THEN answer.text ELSE Trim(answer.text)

\* editTodo(todoId, currentTask) up to its await
editTodo(todoId, currentTask, answer) ==
    IF EditSends(answer, currentTask)
    THEN { Req("update", "edit", [task |-> EditText(answer)], todoId, "") }
    ELSE {}

editBtnClick ==
    /\ ran' = "editBtnClick"
    /\ UserActs
    /\ AppControls
    /\ CanSend
    /\ \E item \in Rendered, answer \in PromptAnswers :
           reqs' = PutAll(reqs, editTodo(item.todo.id, item.todo.task, answer))
    /\ Quiet
    /\ Handler
    /\ UNCHANGED << lists, newTodo >>

editTodoReply ==
    /\ ran' = "editTodoReply"
    /\ \E r \in Replied("edit", "update") :
        /\ IF r.error # NoError
           THEN /\ alerted' = "Error updating todo: " \o r.error
                /\ reqs' = reqs \ {r}
           ELSE /\ alerted' = NoAlert
                /\ reqs' = Put(reqs \ {r}, fetchTodos)
        /\ logged' = FALSE
        /\ Handler
        /\ UNCHANGED << lists, newTodo, clicks >>

\* deleteTodo without the confirm() guard
deleteTodo_NoConfirm(todoId, confirmed) ==
    { Req("delete", "deleteOne", NoBody, todoId, "") }

\* deleteTodo(todoId) up to its await; confirmed is the answer to confirm()
deleteTodo(todoId, confirmed) ==
    IF ~confirmed THEN {}
    ELSE { Req("delete", "deleteOne", NoBody, todoId, "") }

deleteBtnClick ==
    /\ UserActs
    /\ AppControls
    /\ CanSend
    /\ \E item \in Rendered, confirmed \in BOOLEAN :
        /\ reqs' = PutAll(reqs, deleteTodo(item.todo.id, confirmed))
        /\ ran' = IF confirmed THEN "deleteBtnClick" ELSE "deleteBtnClick declined"
    /\ Quiet
    /\ Handler
    /\ UNCHANGED << lists, newTodo >>

deleteTodoReply ==
    /\ ran' = "deleteTodoReply"
    /\ \E r \in Replied("deleteOne", "delete") :
        /\ IF r.error # NoError
           THEN /\ alerted' = "Error deleting todo: " \o r.error
                /\ reqs' = reqs \ {r}
           ELSE /\ alerted' = NoAlert
                /\ reqs' = Put(reqs \ {r}, fetchTodos)
        /\ logged' = FALSE
        /\ Handler
        /\ UNCHANGED << lists, newTodo, clicks >>


\* auth.getUser() answers with the account the request's token belongs to,
\* or with no user when there is no token or the lookup fails
GetUser(r, fail) == IF fail \/ r.token = NoUser THEN NoUser ELSE r.token

(***************************************************************************)
(* Create: the add-todo-btn click handler.                                 *)
(***************************************************************************)
\* const task = taskInput.value.trim()   (app.js: the value as typed)
AddTask(value) == IF impl = "app.js" THEN value ELSE Trim(value)

\* the user leaves some text in the #new-todo field and clicks the button;
\* the handler up to its first await: validation, then auth.getUser()
addTodoBtnClick ==
    /\ ran' = "addTodoBtnClick"
    /\ UserActs
    /\ AppControls
    /\ CanSend
    /\ \E typed \in TaskTexts :
        /\ newTodo' = typed
        /\ IF AddTask(typed) = <<>>
           THEN /\ alerted' = IF impl = "app.js" THEN NoAlert
                              ELSE "Please enter a task!"
                /\ UNCHANGED reqs
           ELSE /\ alerted' = NoAlert
                /\ reqs' = Put(reqs,
                       Req("getUser", "add", [task |-> AddTask(typed)], 0, ""))
    /\ logged' = FALSE
    /\ Handler
    /\ UNCHANGED lists

\* InsertBody without the owner
InsertBody_NoOwner(task, user) ==
    [task |-> task, is_complete |-> FALSE]

\* the row the handler submits for the user that getUser reported
InsertBody(task, user) ==
    [task |-> task, user_id |-> Id(user), is_complete |-> FALSE]

\* after getUser: no user ends the handler, a user sends the insert
addTodoBtnGotUser ==
    /\ ran' = "addTodoBtnGotUser"
    /\ \E r \in Sent("getUser"), fail \in BOOLEAN :
        /\ r.op = "add"
        /\ IF GetUser(r, fail) = NoUser
           THEN /\ alerted' = IF impl = "app.js" THEN NoAlert
                              ELSE "You must be logged in to add todos!"
                /\ reqs' = reqs \ {r}
           ELSE /\ alerted' = NoAlert
                /\ reqs' = Put(reqs \ {r},
                       Req("insert", "add",
                             InsertBody(r.body.task, GetUser(r, fail)), 0, ""))
        /\ logged' = FALSE
        /\ Handler
        /\ UNCHANGED << lists, newTodo, clicks >>

\* addTodoBtnReply without the line that empties the field
addTodoBtnReply_KeepInput ==
    /\ ran' = "addTodoBtnReply"
    /\ \E r \in Replied("add", "insert") :
        /\ IF r.error # NoError
           THEN /\ logged' = TRUE
                /\ alerted' = IF impl = "app.js" THEN NoAlert
                              ELSE "Error adding todo: " \o r.error
                /\ reqs' = reqs \ {r}
           ELSE /\ logged' = FALSE
                /\ alerted' = NoAlert
                /\ reqs' = Put(reqs \ {r}, fetchTodos)
        /\ Handler
        /\ UNCHANGED << lists, newTodo, clicks >>

\* after the insert: report the error, or clear the input and refresh
addTodoBtnReply ==
    /\ ran' = "addTodoBtnReply"
    /\ \E r \in Replied("add", "insert") :
        /\ IF r.error # NoError
           THEN /\ logged' = TRUE
                /\ alerted' = IF impl = "app.js" THEN NoAlert
                              ELSE "Error adding todo: " \o r.error
                /\ reqs' = reqs \ {r}
                /\ UNCHANGED newTodo
           ELSE /\ logged' = FALSE
                /\ alerted' = NoAlert
                /\ newTodo' = <<>>
                /\ reqs' = Put(reqs \ {r}, fetchTodos)
        /\ Handler
        /\ UNCHANGED << lists, clicks >>

(***************************************************************************)
(* Delete-all: the delete-all-tasks-btn click handler (part_000 only).     *)
(***************************************************************************)
deleteAllTasksBtnClick ==
    /\ impl = "part_000"
    /\ UserActs
    /\ AppControls
    /\ CanSend
    /\ \E confirmed \in BOOLEAN :
        /\ reqs' = IF ~confirmed THEN reqs
                   ELSE Put(reqs, Req("getUser", "deleteAll", NoBody, 0, ""))
        /\ ran' = IF confirmed THEN "deleteAllTasksBtnClick"
                  ELSE "deleteAllTasksBtnClick declined"
    /\ Quiet
    /\ Handler
    /\ UNCHANGED << lists, newTodo >>

\* deleteAllTasksBtnGotUser without the test of the user
deleteAllTasksBtnGotUser_NoCheck ==
    /\ ran' = "deleteAllTasksBtnGotUser"
    /\ \E r \in Sent("getUser"), fail \in BOOLEAN :
        /\ r.op = "deleteAll"
        /\ alerted' = NoAlert
        /\ reqs' = Put(reqs \ {r},
                       Req("delete", "deleteAll", NoBody, 0,
                           Id(GetUser(r, fail))))
        /\ logged' = FALSE
        /\ Handler
        /\ UNCHANGED << lists, newTodo, clicks >>

deleteAllTasksBtnGotUser ==
    /\ ran' = "deleteAllTasksBtnGotUser"
    /\ \E r \in Sent("getUser"), fail \in BOOLEAN :
        /\ r.op = "deleteAll"
        /\ IF GetUser(r, fail) = NoUser
           THEN /\ alerted' = "No user found."
                /\ reqs' = reqs \ {r}
           ELSE /\ alerted' = NoAlert
                /\ reqs' = Put(reqs \ {r},
                       Req("delete", "deleteAll", NoBody, 0,
                             Id(GetUser(r, fail))))
        /\ logged' = FALSE
        /\ Handler
        /\ UNCHANGED << lists, newTodo, clicks >>

deleteAllTasksBtnReply ==
    /\ ran' = "deleteAllTasksBtnReply"
    /\ \E r \in Replied("deleteAll", "delete") :
        /\ IF r.error # NoError
           THEN /\ alerted' = "Error deleting todos: " \o r.error
                /\ reqs' = reqs \ {r}
           ELSE /\ alerted' = "All your todos have been deleted."
                /\ reqs' = Put(reqs \ {r}, fetchTodos)
        /\ logged' = FALSE
        /\ Handler
        /\ UNCHANGED << lists, newTodo, clicks >>

(***************************************************************************)
(* Authentication: the signup, login and logout buttons.  The client       *)
(* library stores the session of a reply and queues the notification of    *)
(* its subscribers before the handler continues.                           *)
(***************************************************************************)
AuthHandler ==
    UNCHANGED << impl, startup, ingest, backend, lastEvent, views, lists, newTodo >>

signupBtnClick ==
    /\ ran' = "signupBtnClick"
    /\ UserActs
    /\ AuthControls
    /\ CanSend
    /\ \E u \in Users :
           reqs' = Put(reqs,
                       Req("signUp", "signup", [email |-> u], 0, ""))
    /\ Quiet
    /\ AuthHandler
    /\ UNCHANGED << session, authEvents >>

AuthErrorPrefix == IF impl = "app.js" THEN "" ELSE "Error: "

\* sign-up is refused, or accepted with the confirmation of the address
\* pending (the reply carries no session), or accepted by a project that
\* does not confirm addresses (the reply carries a session: "You're
\* automatically logged in")
SignUpOutcomes == {"error", "pending", "session"}
SignUpMessage == "User already registered"

signupBtnReply ==
    /\ ran' = "signupBtnReply"
    /\ \E r \in Sent("signUp"), outcome \in SignUpOutcomes :
        /\ reqs' = reqs \ {r}
        /\ alerted' =
               IF outcome = "error" THEN AuthErrorPrefix \o SignUpMessage
               ELSE IF impl = "app.js"
               THEN "Signed up! Check your email for a confirmation link."
               ELSE "Success! Check your email for a confirmation link."
        /\ IF outcome = "session"
           THEN /\ session' = r.body.email
                /\ authEvents' = Append(authEvents, r.body.email)
           ELSE UNCHANGED << session, authEvents >>
        /\ logged' = FALSE
        /\ AuthHandler
        /\ UNCHANGED clicks

loginBtnClick ==
    /\ ran' = "loginBtnClick"
    /\ UserActs
    /\ AuthControls
    /\ CanSend
    /\ \E u \in Users, valid \in BOOLEAN :
           reqs' = Put(reqs,
                       Req("signInWithPassword", "login",
                     [email |-> u, valid |-> valid], 0, ""))
    /\ Quiet
    /\ AuthHandler
    /\ UNCHANGED << session, authEvents >>

\* sign-in succeeds exactly for valid credentials
loginBtnReply ==
    /\ ran' = "loginBtnReply"
    /\ \E r \in Sent("signInWithPassword") :
        /\ reqs' = reqs \ {r}
        /\ IF ~r.body.valid
           THEN /\ alerted' = AuthErrorPrefix \o LoginMessage
                /\ UNCHANGED << session, authEvents >>
           ELSE /\ alerted' = NoAlert
                /\ session' = r.body.email
                /\ authEvents' = Append(authEvents, r.body.email)
        /\ logged' = FALSE
        /\ AuthHandler
        /\ UNCHANGED clicks

logoutBtnClick ==
    /\ ran' = "logoutBtnClick"
    /\ UserActs
    /\ AppControls
    /\ CanSend
    /\ reqs' = Put(reqs, Req("signOut", "logout", NoBody, 0, ""))
    /\ Quiet
    /\ AuthHandler
    /\ UNCHANGED << session, authEvents >>

\* logoutBtnReply that shows the login form itself
logoutBtnReply_ShowsAuth ==
    /\ ran' = "logoutBtnReply"
    /\ \E r \in Sent("signOut") :
        /\ reqs' = reqs \ {r}
        /\ session' = NoUser
        /\ authEvents' = Append(authEvents, NoUser)
        /\ Quiet
        /\ ShowAuth
        /\ UNCHANGED << impl, startup, ingest, backend, lastEvent, lists,
                        newTodo, clicks >>

\* await signOut(): the session is removed and the subscribers are told
logoutBtnReply ==
    /\ ran' = "logoutBtnReply"
    /\ \E r \in Sent("signOut") :
        /\ reqs' = reqs \ {r}
        /\ session' = NoUser
        /\ authEvents' = Append(authEvents, NoUser)
        /\ Quiet
        /\ AuthHandler
        /\ UNCHANGED clicks

\* the library renews the token of a present session and tells the
\* subscribers (TOKEN_REFRESHED)
TokenRefreshed ==
    /\ ran' = "TokenRefreshed"
    /\ UserActs
    /\ session # NoUser
    /\ authEvents' = Append(authEvents, session)
    /\ Quiet
    /\ UNCHANGED << impl, startup, ingest, backend, session, lastEvent, views, lists,
                    newTodo, reqs >>

Next ==
    \/ addTodoBtnClick
    \/ addTodoBtnGotUser
    \/ addTodoBtnReply
    \/ checkboxClick
    \/ toggleTodoCompleteReply
    \/ editBtnClick
    \/ editTodoReply
    \/ deleteBtnClick
    \/ deleteTodoReply
    \/ deleteAllTasksBtnClick
    \/ deleteAllTasksBtnGotUser
    \/ deleteAllTasksBtnReply
    \/ fetchTodosReply
    \/ signupBtnClick
    \/ signupBtnReply
    \/ loginBtnClick
    \/ loginBtnReply
    \/ logoutBtnClick
    \/ logoutBtnReply
    \/ TokenRefreshed
    \/ onAuthStateChange
    \/ ServeSelect
    \/ ServeInsert
    \/ ServeUpdate
    \/ ServeDelete

Spec == Init /\ [][Next]_vars

(***************************************************************************)
(* Startup: the async function at the top of the script, from the fetch of *)
(* the .env file to the creation of the client.                            *)
(***************************************************************************)
StartupInit ==
    /\ impl \in Impls
    /\ envText \in EnvTexts
    /\ config = EmptyConfig
    /\ supabaseClient = NoClient
    /\ todos = SeedRows
    /\ nextId = 4
    /\ session = NoUser
    /\ authEvents = << >>
    /\ lastEvent = NoEvent
    /\ authView = ""
    /\ appView = ""
    /\ userEmail = ""
    /\ todoList = << >>
    /\ completedList = << >>
    /\ newTodo = << >>
    /\ reqs = {}
    /\ alerted = NoAlert
    /\ logged = FALSE
    /\ ran = "load"
    /\ clicks = 0
    /\ NotRunning

\* what the startup steps leave alone: nothing is registered or rendered yet
Page == << impl, envText, ingest, backend, session, authEvents, lastEvent, views,
           lists, newTodo, reqs, clicks >>

\* loadConfig after its awaits: the text is parsed and the object returned
loadConfigReturns ==
    /\ ran = "load"
    /\ ran' = "loadConfig"
    /\ config' = loadConfig(envText)
    /\ Quiet
    /\ UNCHANGED << Page, supabaseClient >>

\* after await loadConfig(): the two parameters are read from the object and
\* passed to createClient as they are; when the call throws, the async
\* function ends there and nothing of the script runs
createClientCall ==
    /\ ran = "loadConfig"
    /\ ran' = "createClient"
    /\ supabaseClient' \in createClient(Lookup(config, UrlName),
                                        Lookup(config, KeyName))
    /\ Quiet
    /\ UNCHANGED << Page, config >>

StartupNext ==
    \/ loadConfigReturns
    \/ createClientCall

Startup == StartupInit /\ [][StartupNext]_vars

(***************************************************************************)
(* The music library generator (database_generator.py): for each artist of *)
(* ARTISTS the catalog is searched and the records found are saved into    *)
(* the three tables, with the two mappings of the run against duplicates.  *)
(***************************************************************************)
\* ARTISTS
Artists == << "Queen", "David Bowie" >>

\* a key the catalog left out of a record
Absent == "<absent>"

\* releaseDate strings, as characters
Date1981 == << "1", "9", "8", "1", "-", "1", "0", "-", "2", "6" >>
NotADate == << "n", "o", "t", "-", "a", "-", "d", "a", "t", "e" >>

\* a flat record of the search result
Record(artist, album, track, date) ==
    [artistName |-> artist, collectionName |-> album, trackName |-> track,
     releaseDate |-> date, primaryGenreName |-> "Rock"]

\* records the catalog can return: a search for one artist also finds
\* records of another, albums repeat across records, and keys can be missing
Records ==
    { Record("Queen", "Hot Space", "Under Pressure", Date1981),
      Record("Queen", "Hot Space", "Under Pressure", NotADate),
      Record("David Bowie", "Hot Space", "Under Pressure", Date1981),
      Record("Queen", "Live", "Under Pressure", NotADate),
      Record("David Bowie", "Live", Absent, Date1981) }

\* the results of one search: at most MaxRecords records
Results == SeqsUpTo(Records, MaxRecords)

\* a column that is NULL, or holds a value
Null == << >>
Value(x) == << x >>

Digits == << "0", "1", "2", "3", "4", "5", "6", "7", "8", "9" >>
IsDigit(c) == \E i \in 1..10 : Digits[i] = c
DigitValue(c) == (CHOOSE i \in 1..10 : Digits[i] = c) - 1

\* ParseYear that stores the year 0 for a date it cannot read
ParseYear_Zero(date) ==
    IF Len(date) >= 4 /\ \A i \in 1..4 : IsDigit(date[i])
    THEN Value(1000 * DigitValue(date[1]) + 100 * DigitValue(date[2])
                 + 10 * DigitValue(date[3]) + DigitValue(date[4]))
    ELSE Value(0)

\* the release year of a date string: its first four characters as a
\* number, or nothing when they are not one
ParseYear(date) ==
    IF Len(date) >= 4 /\ \A i \in 1..4 : IsDigit(date[i])
    THEN Value(1000 * DigitValue(date[1]) + 100 * DigitValue(date[2])
                 + 10 * DigitValue(date[3]) + DigitValue(date[4]))
    ELSE Null

\* a record with all the fields its rows need
Complete(rec) ==
    /\ rec.artistName # Absent
    /\ rec.collectionName # Absent
    /\ rec.trackName # Absent

\* cursor.lastrowid of an insert into a table that never loses rows
LastRowId(table) == Cardinality(table) + 1

\* SaveArtist that records the id of a row the insert did not create
SaveArtist_WrongId(st, artist_name) ==
    IF artist_name \notin DOMAIN st.saved_artists
    THEN [st EXCEPT
            !.artists = @ \cup { [id |-> LastRowId(st.artists),
                                  name |-> artist_name] },
            !.saved_artists = Assign(@, artist_name, LastRowId(st.artists) + 1)]
    ELSE st

\* SaveArtist without the lookup in saved_artists
SaveArtist_NoLookup(st, artist_name) ==
    [st EXCEPT
        !.artists = @ \cup { [id |-> LastRowId(st.artists),
                              name |-> artist_name] },
        !.saved_artists = Assign(@, artist_name, LastRowId(st.artists))]

\* if artist_name not in saved_artists: insert, and record cursor.lastrowid
SaveArtist(st, artist_name) ==
    IF artist_name \notin DOMAIN st.saved_artists
    THEN [st EXCEPT
            !.artists = @ \cup { [id |-> LastRowId(st.artists),
                                  name |-> artist_name] },
            !.saved_artists = Assign(@, artist_name, LastRowId(st.artists))]
    ELSE st

AlbumKey(st, rec) == << st.saved_artists[rec.artistName], rec.collectionName >>

\* SaveAlbum without the lookup in saved_albums
SaveAlbum_NoLookup(st, rec) ==
    [st EXCEPT
        !.albums = @ \cup { [id |-> LastRowId(st.albums),
                             title |-> rec.collectionName,
                             artist_id |-> st.saved_artists[rec.artistName],
                             genre |-> rec.primaryGenreName,
                             release_year |-> ParseYear(rec.releaseDate)] },
        !.saved_albums = Assign(@, AlbumKey(st, rec), LastRowId(st.albums))]

\* look the album up by (artist id, title) or insert it, with the genre and
\* the year parsed from the date
SaveAlbum(st, rec) ==
    IF AlbumKey(st, rec) \notin DOMAIN st.saved_albums
    THEN [st EXCEPT
            !.albums = @ \cup { [id |-> LastRowId(st.albums),
                                 title |-> rec.collectionName,
                                 artist_id |-> st.saved_artists[rec.artistName],
                                 genre |-> rec.primaryGenreName,
                                 release_year |-> ParseYear(rec.releaseDate)] },
            !.saved_albums = Assign(@, AlbumKey(st, rec), LastRowId(st.albums))]
    ELSE st

\* a song row is always inserted, with the id of the record's album
SaveSong(st, rec) ==
    [st EXCEPT
        !.songs = @ \cup { [id |-> LastRowId(st.songs),
                            title |-> rec.trackName,
                            album_id |-> st.saved_albums[AlbumKey(st, rec)]] }]

\* the body of the loop of save_to_database for one record: a record with
\* a missing field is skipped
SaveRecord(st, rec) ==
    IF ~Complete(rec) THEN st
    ELSE SaveSong(SaveAlbum(SaveArtist(st, rec.artistName), rec), rec)

RECURSIVE SaveRecords(_, _)
\* for song in songs_data: ...
SaveRecords(st, recs) ==
    IF recs = << >> THEN st
    ELSE SaveRecords(SaveRecord(st, Head(recs)), Tail(recs))

IngestInit ==
    /\ impl \in Impls
    /\ envText = ValidEnv
    /\ config = EmptyConfig
    /\ supabaseClient = NoClient
    /\ todos = SeedRows
    /\ nextId = 4
    /\ session = NoUser
    /\ authEvents = << >>
    /\ lastEvent = NoEvent
    /\ authView = ""
    /\ appView = ""
    /\ userEmail = ""
    /\ todoList = << >>
    /\ completedList = << >>
    /\ newTodo = << >>
    /\ reqs = {}
    /\ alerted = NoAlert
    /\ logged = FALSE
    /\ ran = "main"
    /\ clicks = 0
    /\ artists = {}
    /\ albums = {}
    /\ songs = {}
    /\ saved_artists = << >>
    /\ saved_albums = << >>
    /\ artist_queue = Artists
    /\ songs_data = << >>

\* the to-do page is no part of a run of the generator
NoPage == << impl, startup, backend, session, authEvents, lastEvent, views,
             lists, newTodo, reqs, alerted, clicks >>

\* fetch_songs_from_itunes whose failure ends the run
fetch_songs_from_itunes_Fatal ==
    /\ ran \in {"main", "save_to_database"}
    /\ artist_queue # << >>
    /\ ran' = "fetch_songs_from_itunes"
    /\ \E failed \in BOOLEAN :
        /\ logged' = failed
        /\ IF failed THEN songs_data' = << >> /\ artist_queue' = << >>
                     ELSE songs_data' \in Results /\ artist_queue' = artist_queue
    /\ UNCHANGED << NoPage, library, saved_artists, saved_albums >>

\* the search for the next artist: the records found, or, when the request
\* fails or is answered with an error status, a logged message and no records
fetch_songs_from_itunes ==
    /\ ran \in {"main", "save_to_database"}
    /\ artist_queue # << >>
    /\ ran' = "fetch_songs_from_itunes"
    /\ \E failed \in BOOLEAN :
        /\ logged' = failed
        /\ IF failed THEN songs_data' = << >>
                     ELSE songs_data' \in Results
    /\ UNCHANGED << NoPage, library, saved_artists, saved_albums, artist_queue >>

\* the records of the artist are saved and the run goes on to the next one
save_to_database ==
    /\ ran = "fetch_songs_from_itunes"
    /\ ran' = "save_to_database"
    /\ LET st == SaveRecords([artists |-> artists, albums |-> albums,
                              songs |-> songs,
                              saved_artists |-> saved_artists,
                              saved_albums |-> saved_albums], songs_data)
       IN  /\ artists' = st.artists
           /\ albums' = st.albums
           /\ songs' = st.songs
           /\ saved_artists' = st.saved_artists
           /\ saved_albums' = st.saved_albums
           /\ logged' = \E i \in 1..Len(songs_data) : ~Complete(songs_data[i])
    /\ artist_queue' = Tail(artist_queue)
    /\ UNCHANGED << NoPage, songs_data >>

IngestNext ==
    \/ fetch_songs_from_itunes
    \/ save_to_database

Ingest == IngestInit /\ [][IngestNext]_vars


(***************************************************************************)
(* Properties.                                                             *)
(***************************************************************************)
AllRows == { item.todo : item \in Rendered }
Shown(list) == { list[i].todo : i \in 1..Len(list) }

\* the client is settled in a session: the callback has run for it and no
\* further notification is waiting
SettledAs(s) == session = s /\ authEvents = <<>> /\ lastEvent = s

\* the step delivers a session-change notification
Delivers == ran' = "onAuthStateChange" /\ Len(authEvents') < Len(authEvents)

\* the requests a step sends, and the ones it takes out of flight
NewReqs == { n \in reqs' \ reqs : n.stage = "sent" }
Consumed == reqs \ reqs'

Mutations == {"insert", "update", "delete"}

\* C1: whenever the task view is shown for the settled session of a user,
\* every rendered item, incomplete or completed, is a row that user owns.
C1_OnlyOwnRowsShown ==
    \A u \in Users :
        (SettledAs(u) /\ appView = "block") =>
            \A row \in AllRows : row.user_id = "uid-" \o u

\* C2: once the client is settled without a session and both rendered
\* lists are empty, they stay empty for as long as it stays so, whichever
\* List replies arrive.
C2_StaleListIgnored ==
    [][ (SettledAs(NoUser) /\ todoList = <<>> /\ completedList = <<>>
            /\ SettledAs(NoUser)')
        => (todoList' = <<>> /\ completedList' = <<>>) ]_vars

\* C3: every session-change event without a session shows the credential
\* view, hides the task view and empties both rendered lists.
C3_LoggedOutClearsAll ==
    [][ (Delivers /\ Head(authEvents) = NoUser)
        => /\ authView' = "block"
           /\ appView' = "none"
           /\ todoList' = <<>>
           /\ completedList' = <<>> ]_vars

\* C4: every session-change event with a session and user hides the
\* credential view, shows the task view, sets the banner to the user's
\* email and sends exactly one List request.
C4_LoggedInShowsApp ==
    [][ (Delivers /\ Head(authEvents) \in Users)
        => /\ authView' = "none"
           /\ appView' = "block"
           /\ userEmail' = Head(authEvents) \o "@example.com"
           /\ Consumed = {}
           /\ Cardinality(NewReqs) = 1
           /\ \A n \in NewReqs : n.kind = "select" ]_vars

C4_Witness ==
    /\ ran = "onAuthStateChange"
    /\ lastEvent = "B"
    /\ appView = "block"
    /\ authView = "none"
    /\ userEmail = "B@example.com"
    /\ \E r \in reqs : r.kind = "select" /\ r.stage = "sent" /\ r.token = "B"

\* C5: after the first session-change event exactly one of the two views
\* is displayed, and it is the task view exactly when the latest event
\* carried a session.
C5_ExclusiveViews ==
    lastEvent # NoEvent =>
        /\ (authView = "block" /\ appView = "none")
               \/ (authView = "none" /\ appView = "block")
        /\ appView = "block" <=> lastEvent \in Users

\* a logout after a login: both transitions have happened
C5_Witness ==
    /\ lastEvent = NoUser
    /\ userEmail = "A@example.com"
    /\ authView = "block"
    /\ appView = "none"


\* C6: a Create with empty text, a declined Delete-one and a declined
\* Delete-all send no request and leave the table and the rendered lists
\* as they were.
C6_ValidationSendsNothing ==
    [][ (\/ ran' = "addTodoBtnClick" /\ newTodo' = <<>>
         \/ ran' = "deleteBtnClick declined"
         \/ ran' = "deleteAllTasksBtnClick declined")
        => /\ reqs' = reqs
           /\ todos' = todos
           /\ todoList' = todoList
           /\ completedList' = completedList ]_vars

\* a declined Delete-one on a rendered row while a request is in flight
C6_Witness ==
    /\ ran = "deleteBtnClick declined"
    /\ Rendered # {}
    /\ reqs # {}
    /\ \A r \in reqs : r.kind # "delete"

\* C7: a Create whose identity lookup was made without a session sends no
\* insert and no List request, adds no row, and shows an error.
C7_CreateWithoutSession ==
    [][ (ran' = "addTodoBtnGotUser"
            /\ \E r \in Consumed : r.kind = "getUser" /\ r.token = NoUser)
        => /\ NewReqs = {}
           /\ todos' = todos
           /\ alerted' # NoAlert ]_vars

\* C8: every insert the client sends carries the task of its Create,
\* is_complete = false and the id of the user the identity lookup of that
\* Create answered with.
C8_InsertCarriesOwner ==
    [][ \A n \in NewReqs :
            n.kind = "insert" =>
                \E r \in Consumed :
                    /\ r.kind = "getUser"
                    /\ r.op = "add"
                    /\ r.token \in Users
                    /\ r.body.task # <<>>
                    /\ n.body = [task |-> r.body.task,
                                 user_id |-> "uid-" \o r.token,
                                 is_complete |-> FALSE] ]_vars

C8_Witness ==
    \E r \in reqs :
        /\ r.kind = "insert"
        /\ r.stage = "sent"
        /\ r.body.user_id = "uid-A"
        /\ ran = "addTodoBtnGotUser"

\* C9: the handler that receives the success of a mutation sends exactly
\* one List request and leaves the rendered lists alone; after a Create it
\* has also emptied the input field.
C9_SuccessRefetches ==
    [][ \A r \in Consumed :
            (r.stage = "replied" /\ r.kind \in Mutations /\ r.error = NoError)
            => /\ Cardinality(NewReqs) = 1
               /\ \A n \in NewReqs : n.kind = "select"
               /\ todoList' = todoList
               /\ completedList' = completedList
               /\ r.kind = "insert" => newTodo' = <<>> ]_vars

\* a Create has succeeded: its row is stored, the field is empty and the
\* List request is on its way
C9_Witness ==
    /\ ran = "addTodoBtnReply"
    /\ newTodo = <<>>
    /\ \E row \in todos : row.id = 4
    /\ \E r \in reqs : r.kind = "select" /\ r.stage = "sent"

\* C10: the handler that receives the error of a mutation shows it to the
\* user, sends no List request and leaves the rendered lists and the input
\* field as they were.
C10_FailureReported ==
    [][ \A r \in Consumed :
            (r.stage = "replied" /\ r.kind \in Mutations /\ r.error # NoError)
            => /\ alerted' # NoAlert
               /\ NewReqs = {}
               /\ todoList' = todoList
               /\ completedList' = completedList
               /\ newTodo' = newTodo ]_vars

\* the requests the backend applies in this step: taken as sent, answered
\* without an error
Applied(kind, op) ==
    { r \in Consumed :
        /\ r.stage = "sent" /\ r.kind = kind /\ r.op = op
        /\ \E n \in reqs' \ reqs :
               /\ n.stage = "replied" /\ n.error = NoError
               /\ n.kind = kind /\ n.op = op /\ n.token = r.token
               /\ n.eqId = r.eqId /\ n.eqUser = r.eqUser /\ n.body = r.body }

\* the stored row a request of the caller is filtered to by id
Target(r) ==
    { row \in todos : row.id = r.eqId /\ row.user_id = "uid-" \o r.token }

\* C11: every Toggle-complete the backend applies flips the stored
\* is_complete of its row, from either value, and leaves every other field
\* of the row as it was; toggling the same Todo twice therefore returns the
\* row to its original value.
C11_ToggleTwiceRestores ==
    [][ \A r \in Applied("update", "toggle") :
            \A row \in Target(r) :
                [row EXCEPT !.is_complete = ~row.is_complete] \in todos' ]_vars

\* C12: for every rendered item and every answer to the prompt, Edit sends
\* a request exactly when the answer is not a cancel, its text is not empty
\* and differs from the item's text; the request is an update of the task
\* of that row, filtered by its id, and the text it writes is not empty and
\* not the item's text.
C12_EditSendsIff ==
    \A item \in Rendered, answer \in PromptAnswers :
        LET sends == editTodo(item.todo.id, item.todo.task, answer) IN
        /\ sends # {} <=> /\ ~answer.cancelled
                          /\ answer.text # <<>>
                          /\ answer.text # item.todo.task
        /\ \A r \in sends : /\ r.kind = "update"
                            /\ r.eqId = item.todo.id
                            /\ DOMAIN r.body = {"task"}
                            /\ r.body.task # <<>>
                            /\ r.body.task # item.todo.task

\* C13: a Delete-one request carries the id of a rendered item, and when
\* the backend applies it the table loses the caller's row of that id and
\* nothing else: every other row is stored unchanged.
C13_DeleteOneExact ==
    [][ /\ \A n \in NewReqs :
               (n.kind = "delete" /\ n.op = "deleteOne")
               => /\ ran' = "deleteBtnClick"
                  /\ n.eqUser = ""
                  /\ \E item \in Rendered : n.eqId = item.todo.id
        /\ \A r \in Applied("delete", "deleteOne") :
               /\ todos' = todos \ Target(r)
               /\ nextId' = nextId ]_vars

\* a row of A's has been deleted while the other rows are all stored
C13_Witness ==
    /\ ran = "ServeDelete"
    /\ \E r \in reqs : r.stage = "replied" /\ r.op = "deleteOne"
                       /\ r.error = NoError /\ r.eqId = 1 /\ r.token = "A"
    /\ todos = { row \in SeedRows : row.id # 1 }

\* C14: a Delete-all request is filtered by the id of the user the identity
\* lookup answered with; when the backend applies it, every row it removes
\* is owned by the caller, no row of another user is removed or changed,
\* and when caller and filter agree all the caller's rows are gone.
C14_DeleteAllOwnRowsOnly ==
    [][ /\ \A n \in NewReqs :
               (n.kind = "delete" /\ n.op = "deleteAll")
               => \E g \in Consumed :
                      /\ g.kind = "getUser" /\ g.op = "deleteAll"
                      /\ g.token \in Users
                      /\ n.eqUser = "uid-" \o g.token
                      /\ n.eqId = 0
        /\ \A r \in Applied("delete", "deleteAll") :
               /\ todos' \subseteq todos
               /\ \A row \in todos \ todos' :
                      row.user_id = "uid-" \o r.token
               /\ (r.token \in Users /\ r.eqUser = "uid-" \o r.token)
                  => \A row \in todos' : row.user_id # r.eqUser ]_vars

\* A's rows are all gone and B's row is stored as it was
C14_Witness ==
    /\ ran = "ServeDelete"
    /\ \E r \in reqs : r.stage = "replied" /\ r.op = "deleteAll"
                       /\ r.error = NoError /\ r.token = "A"
    /\ todos = { row \in SeedRows : row.user_id = "uid-B" }

\* the List replies a step receives without an error
Listed ==
    { r \in Consumed : r.stage = "replied" /\ r.kind = "select"
                       /\ r.error = NoError }

Fetched(r) == { r.data[i] : i \in 1..Len(r.data) }

Descending(list) ==
    \A i, j \in 1..Len(list) :
        i < j => list[i].todo.created_at >= list[j].todo.created_at

\* C15: after the render of a successful List reply the incomplete view
\* holds exactly the fetched rows with is_complete false and the completed
\* view exactly those with is_complete true, each row once, and the items
\* of each view are in descending order of creation time.
C15_ListPartition ==
    [][ \A r \in Listed :
            /\ Shown(todoList') = { row \in Fetched(r) : ~row.is_complete }
            /\ Shown(completedList') = { row \in Fetched(r) : row.is_complete }
            /\ Len(todoList') = Cardinality(Shown(todoList'))
            /\ Len(completedList') = Cardinality(Shown(completedList'))
            /\ \A i \in 1..Len(todoList') : ~todoList'[i].isCompleted
            /\ \A i \in 1..Len(completedList') : completedList'[i].isCompleted
            /\ Descending(todoList')
            /\ Descending(completedList') ]_vars

\* a render of three rows: the created one above the older incomplete one,
\* and one completed
C15_Witness ==
    /\ ran = "fetchTodosReply"
    /\ Len(todoList) = 2
    /\ todoList[1].todo.id = 4
    /\ Len(completedList) = 1

\* C16: the render of a successful List reply shows the rows of that reply
\* and nothing else, whatever was rendered before and whichever other List
\* requests are still outstanding: replies are rendered in the order they
\* complete.
C16_LastWriteWins ==
    [][ \A r \in Listed :
            /\ AllRows' = Fetched(r)
            /\ Len(todoList') + Len(completedList') = Len(r.data) ]_vars

\* two List requests overlapped with different results: one is rendered,
\* the reply of the other is still to be received
C16_Witness ==
    /\ ran = "fetchTodosReply"
    /\ AllRows # {}
    /\ \E r \in reqs : /\ r.stage = "replied" /\ r.kind = "select"
                       /\ r.error = NoError
                       /\ r.token = session
                       /\ Fetched(r) # AllRows

\* the steps in which a click handler runs up to its first await
ClickSteps ==
    { "addTodoBtnClick", "checkboxClick", "editBtnClick", "deleteBtnClick",
      "deleteAllTasksBtnClick" }

\* C17: no control is serialized or debounced.  A click on add-task with a
\* non-blank text puts one more request in flight, also when an equal one
\* is outstanding, and every Create the backend applies adds one row, also
\* when a row with that text and owner is stored.  A step sends at most one
\* request: a click handler sends its update, delete or identity lookup in
\* the step of the click, and an insert or Delete-all delete is sent by the
\* continuation that receives one identity lookup, so one click issues at
\* most one mutation request.
C17_NoDebounce ==
    [][ /\ Cardinality(NewReqs) <= 1
        /\ (ran' = "addTodoBtnClick" /\ Trim(newTodo') # <<>>)
           => /\ Cardinality(reqs') = Cardinality(reqs) + 1
              /\ \E n \in NewReqs : n.kind = "getUser"
        /\ \A n \in NewReqs :
               /\ n.kind \in {"update", "getUser"} \/ n.op = "deleteOne"
                  => ran' \in ClickSteps /\ clicks' = clicks + 1
               /\ n.kind = "insert" \/ (n.kind = "delete" /\ n.op = "deleteAll")
                  => /\ clicks' = clicks
                     /\ \E g \in Consumed : g.kind = "getUser" /\ g.op = n.op
        /\ \A r \in Applied("insert", "add") :
               /\ Cardinality(todos') = Cardinality(todos) + 1
               /\ \E row \in todos' \ todos : /\ row.task = r.body.task
                                              /\ row.user_id = r.body.user_id
                                              /\ row.id = nextId ]_vars

\* two clicks on add-task with the same text, the second before the first
\* Create had completed: both inserts are applied and two rows hold the text
C17_Witness ==
    /\ clicks = 2
    /\ Cardinality({ r \in reqs : r.stage = "replied" /\ r.kind = "insert"
                                  /\ r.error = NoError }) = 2
    /\ \E r4, r5 \in todos : /\ r4.id = 4 /\ r5.id = 5
                             /\ r4.task = r5.task
                             /\ r4.user_id = r5.user_id

\* C18: every update the client sends is filtered by the id of a rendered
\* item and carries the one field its operation changes, is_complete for
\* Toggle-complete and task for Edit.  When the backend applies it, every
\* row of another id is stored unchanged and the row of that id differs at
\* most in that field; in no step does a stored row change its id, its
\* user_id or its created_at.
C18_OwnerImmutable ==
    [][ /\ \A n \in NewReqs :
               n.kind = "update"
               => /\ n.eqId # 0
                  /\ n.eqUser = ""
                  /\ \E item \in Rendered : n.eqId = item.todo.id
                  /\ \/ n.op = "toggle" /\ DOMAIN n.body = {"is_complete"}
                     \/ n.op = "edit" /\ DOMAIN n.body = {"task"}
        /\ \A r \in Applied("update", "toggle") \cup Applied("update", "edit") :
               /\ \A row \in todos : row.id # r.eqId => row \in todos'
               /\ \A row \in todos :
                      row.id = r.eqId
                      => \E new \in todos' :
                             \A f \in DOMAIN row \ DOMAIN r.body :
                                 new[f] = row[f]
               /\ Cardinality(todos') = Cardinality(todos)
        /\ \A new \in todos' :
               (\E row \in todos : row.id = new.id)
               => \E row \in todos : /\ row.id = new.id
                                     /\ row.user_id = new.user_id
                                     /\ row.created_at = new.created_at ]_vars

\* an Edit and a Toggle-complete of A's rows have been applied: the rows
\* keep their owners and creation times, B's row is as it was
C18_Witness ==
    /\ ran = "ServeUpdate"
    /\ \E row \in todos : /\ row.id = 1 /\ row.is_complete
                          /\ row.user_id = "uid-A" /\ row.created_at = 1
    /\ \E row \in todos : /\ row.id = 2 /\ row.task # <<"b">>
                          /\ row.user_id = "uid-A" /\ row.created_at = 2
    /\ \E row \in todos : row.id = 3 /\ row \in SeedRows

\* the first "=" of a line
FirstEq(line) ==
    CHOOSE k \in 1..Len(line) :
        line[k] = "=" /\ \A j \in 1..(k - 1) : line[j] # "="

\* the lines of the configuration source that are entries for a name
EntriesFor(name) ==
    { i \in 1..Len(envText) :
        LET line == envText[i] IN
        /\ line # << >> /\ Head(line) # "#"
        /\ IF \E k \in 1..Len(line) : line[k] = "="
           THEN Trim(SubSeq(line, 1, FirstEq(line) - 1)) = << name >>
           ELSE Trim(line) = << name >> }

\* an entry is well-formed when a value follows its "="
WellFormed(i) ==
    LET line == envText[i] IN
    /\ \E k \in 1..Len(line) : line[k] = "="
    /\ Trim(SubSeq(line, FirstEq(line) + 1, Len(line))) # << >>

\* the source has no entry for the name, or a malformed one
LacksOrMalformed(name) ==
    \/ EntriesFor(name) = {}
    \/ \E i \in EntriesFor(name) : ~WellFormed(i)

\* C19: when the configuration source lacks the endpoint URL or the public
\* key, or holds a malformed entry for one of them, startup ends with a
\* message, and the client is not created with a parameter that is
\* undefined or empty.
C19_ConfigFailsFast ==
    (ran = "createClient"
        /\ (LacksOrMalformed("SUPABASE_URL")
               \/ LacksOrMalformed("SUPABASE_ANON_KEY")))
    => /\ alerted # NoAlert \/ logged
       /\ supabaseClient.state # "created"

\* what the sign-up handler shows when the backend accepted the sign-up
SignUpAccepted ==
    { "Signed up! Check your email for a confirmation link.",
      "Success! Check your email for a confirmation link." }

\* C20: when sign-in is refused the handler shows the backend's message
\* "Invalid login credentials", and when sign-up is refused the backend's
\* message "User already registered", each exactly as the backend gave it;
\* the step leaves the two views and the banner as they were.
C20_AuthErrorUnmodified ==
    [][ /\ (ran' = "loginBtnReply"
               /\ \E r \in Consumed : r.kind = "signInWithPassword"
                                      /\ ~r.body.valid)
           => /\ alerted' = "Invalid login credentials"
              /\ authView' = authView /\ appView' = appView
              /\ userEmail' = userEmail
        /\ (ran' = "signupBtnReply" /\ alerted' \notin SignUpAccepted)
           => /\ alerted' = "User already registered"
              /\ authView' = authView /\ appView' = appView
              /\ userEmail' = userEmail ]_vars

\* C21: the step in which the sign-up handler reports success tells the
\* user that a confirmation is pending and logs nobody in: the session is
\* as it was, no session-change notification is queued, the views are as
\* they were and no request is sent.
C21_SignUpNoLogin ==
    [][ (ran' = "signupBtnReply" /\ alerted' \in SignUpAccepted)
        => /\ session' = session
           /\ authEvents' = authEvents
           /\ authView' = authView /\ appView' = appView
           /\ NewReqs = {} ]_vars

\* the replies with an error that a step receives; an identity lookup made
\* without a session fails too
Failures ==
    { r \in Consumed : \/ r.stage = "replied" /\ r.error # NoError
                       \/ r.kind = "getUser" /\ r.token = NoUser
                       \/ r.kind = "signInWithPassword" /\ ~r.body.valid }

\* C22: nothing is retried.  The step that receives the error of a request
\* sends no request, and every request is sent by a user action, by the
\* delivery of a session-change notification, or by the continuation that
\* received the answer of the one request it consumes.
C22_NoAutoRetry ==
    [][ /\ Failures # {} => NewReqs = {}
        /\ NewReqs # {}
           => \/ clicks' = clicks + 1
              \/ Delivers /\ Head(authEvents) \in Users
              \/ /\ Cardinality(Consumed) = 1
                 /\ \A r \in Consumed :
                        \/ r.stage = "replied" /\ r.error = NoError
                                               /\ r.kind \in Mutations
                        \/ r.kind = "getUser" /\ r.token \in Users ]_vars

\* the insert of a Create has failed: the handler has logged the error,
\* nothing is in flight, the table and the rendered lists are as before
C22_Witness ==
    /\ ran = "addTodoBtnReply"
    /\ logged
    /\ reqs = {}
    /\ clicks = 1
    /\ todos = SeedRows
    /\ Rendered # {}


(***************************************************************************)
(* The music library generator                                             *)
(***************************************************************************)
\* the records of the batch that are not skipped
Batch == { i \in 1..Len(songs_data) : Complete(songs_data[i]) }

BatchNames == { songs_data[i].artistName : i \in Batch }

RowsNamed(table, name) == { row \in table : row.name = name }

\* C23: whatever the order of the records and however often a name is
\* repeated, in the batch and over the batches of the run, the artists table
\* holds exactly one row for each artist name of a saved record: a batch adds
\* one row for each of its names that had none, and no other row.
C23_OneArtistPerName ==
    [][ ran' = "save_to_database"
        => /\ \A name \in BatchNames :
                  Cardinality(RowsNamed(artists', name)) = 1
           /\ \A row \in artists' :
                  Cardinality(RowsNamed(artists', row.name)) = 1
           /\ artists \subseteq artists'
           /\ Cardinality(artists' \ artists)
                = Cardinality({ name \in BatchNames :
                                  RowsNamed(artists, name) = {} }) ]_vars

\* the last batch of a run repeated a name twice, after an earlier batch
\* had saved two names
C23_Witness ==
    /\ ran = "save_to_database"
    /\ artist_queue = << >>
    /\ Batch = {1, 2}
    /\ songs_data[1].artistName = songs_data[2].artistName
    /\ Cardinality(artists) = 2
    /\ Cardinality(songs) >= 3


\* the (artist name, album title) pair of a record
PairOf(rec) == << rec.artistName, rec.collectionName >>

BatchPairs == { PairOf(songs_data[i]) : i \in Batch }

\* the rows of a table of albums with the title and the artist of a pair
AlbumsOf(albumRows, artistRows, pair) ==
    { album \in albumRows :
        /\ album.title = pair[2]
        /\ \E artist \in artistRows : /\ artist.name = pair[1]
                                      /\ artist.id = album.artist_id }

\* C24: a save step leaves exactly one album row for every (artist, album
\* title) pair of its batch, whether the pair is new or was saved before,
\* and adds one song row of that album for each record of the batch that
\* carries the pair: song rows are never dropped or merged, equal records
\* give as many rows.
C24_OneAlbumManySongs ==
    [][ ran' = "save_to_database"
        => /\ songs \subseteq songs'
           /\ Cardinality(songs' \ songs) = Cardinality(Batch)
           /\ \A pair \in BatchPairs :
                /\ Cardinality(AlbumsOf(albums', artists', pair)) = 1
                /\ \A album \in AlbumsOf(albums', artists', pair) :
                     Cardinality({ song \in songs' \ songs :
                                     song.album_id = album.id })
                      = Cardinality({ i \in Batch :
                                        PairOf(songs_data[i]) = pair }) ]_vars

\* both batches of a run held the same record twice: one album, four songs
C24_Witness ==
    /\ ran = "save_to_database"
    /\ artist_queue = << >>
    /\ Batch = {1, 2}
    /\ songs_data[1] = songs_data[2]
    /\ Cardinality(albums) = 1
    /\ Cardinality(songs) = 4
    /\ \A song \in songs : \A album \in albums : song.album_id = album.id


FetchFailed == ran' = "fetch_songs_from_itunes" /\ logged'

\* C26: a search that fails is logged and gives the empty sequence of
\* records; it changes no table and no mapping and leaves the artist and
\* those after it in the queue. The save step that follows stores nothing
\* and moves on to the next artist. No step of a run removes a stored row.
C26_FetchFailureNotFatal ==
    [][ /\ FetchFailed
           => /\ songs_data' = << >>
              /\ UNCHANGED << library, saved_artists, saved_albums >>
              /\ artist_queue' = artist_queue
        /\ (ran = "fetch_songs_from_itunes" /\ logged
              /\ ran' = "save_to_database")
           => /\ UNCHANGED << library, saved_artists, saved_albums >>
              /\ artist_queue' = Tail(artist_queue)
        /\ artists \subseteq artists'
        /\ albums \subseteq albums'
        /\ songs \subseteq songs' ]_vars

\* the search for the second artist failed after the first one's records
\* had been saved
C26_Witness ==
    /\ ran = "fetch_songs_from_itunes"
    /\ logged
    /\ songs_data = << >>
    /\ Len(artist_queue) = 1
    /\ artists # {}
    /\ songs # {}


\* the record is the first of its pair in the batch, and no album of the
\* pair was stored before the batch
FirstOfPair(i) ==
    /\ AlbumsOf(albums, artists, PairOf(songs_data[i])) = {}
    /\ \A j \in Batch : j < i => PairOf(songs_data[j]) # PairOf(songs_data[i])

\* C27: when a record of the batch carries a release date that is no date,
\* the save step still leaves an album row for its pair; if the record is
\* the one that inserts the album the row has no release year. Every record
\* of the batch, before and after it, gets its song row and the run moves
\* on to the next artist.
C27_BadDateKeepsAlbum ==
    [][ ran' = "save_to_database"
        => \A i \in Batch :
             songs_data[i].releaseDate = NotADate
             => /\ AlbumsOf(albums', artists', PairOf(songs_data[i])) # {}
                /\ FirstOfPair(i)
                   => \A album \in AlbumsOf(albums', artists',
                                            PairOf(songs_data[i])) :
                          album.release_year = Null
                /\ Cardinality(songs' \ songs) = Cardinality(Batch)
                /\ artist_queue' = Tail(artist_queue) ]_vars

\* a batch whose first record had no readable date and whose second had one
\* was saved: an album without a year, an album with one, two songs
C27_Witness ==
    /\ ran = "save_to_database"
    /\ Len(artist_queue) = 1
    /\ Batch = {1, 2}
    /\ songs_data[1].releaseDate = NotADate
    /\ songs_data[2].releaseDate = Date1981
    /\ \E album \in albums : album.release_year = Null
    /\ \E album \in albums : album.release_year = Value(1981)
    /\ Cardinality(songs) = 2


(***************************************************************************)
(* The to-do page when every request succeeds                              *)
(***************************************************************************)
\* a step in which no request is answered with an error, no handler
\* receives one and nothing is written to console.error
NoErrorStep ==
    /\ \A r \in reqs' \ reqs : r.error = NoError
    /\ Failures = {}
    /\ ~logged'

CalmNext ==
    \/ addTodoBtnClick /\ NoErrorStep
    \/ addTodoBtnGotUser /\ NoErrorStep
    \/ addTodoBtnReply /\ NoErrorStep
    \/ checkboxClick /\ NoErrorStep
    \/ toggleTodoCompleteReply /\ NoErrorStep
    \/ editBtnClick /\ NoErrorStep
    \/ editTodoReply /\ NoErrorStep
    \/ deleteBtnClick /\ NoErrorStep
    \/ deleteTodoReply /\ NoErrorStep
    \/ deleteAllTasksBtnClick /\ NoErrorStep
    \/ deleteAllTasksBtnGotUser /\ NoErrorStep
    \/ deleteAllTasksBtnReply /\ NoErrorStep
    \/ fetchTodosReply /\ NoErrorStep
    \/ signupBtnClick /\ NoErrorStep
    \/ signupBtnReply /\ NoErrorStep
    \/ loginBtnClick /\ NoErrorStep
    \/ loginBtnReply /\ NoErrorStep
    \/ logoutBtnClick /\ NoErrorStep
    \/ logoutBtnReply /\ NoErrorStep
    \/ TokenRefreshed /\ NoErrorStep
    \/ onAuthStateChange /\ NoErrorStep
    \/ ServeSelect /\ NoErrorStep
    \/ ServeInsert /\ NoErrorStep
    \/ ServeUpdate /\ NoErrorStep
    \/ ServeDelete /\ NoErrorStep

\* the runs of the page in which every request completes successfully
Calm == Init /\ [][CalmNext]_vars

\* the rows of the table that a user owns
StoredRows(u) == { row \in todos : row.user_id = Id(u) }

\* the rows shown in the incomplete and in the completed list
RenderedRows == { item.todo : item \in Rendered }

\* the session of a user is settled, the task view is shown, no request is
\* in flight and no notification waits to be delivered
Quiescent(u) == SettledAs(u) /\ appView = "block" /\ reqs = {}

\* C28: in a run in which every request has succeeded, whenever the session
\* of a user is settled and nothing is in flight the two lists together show
\* exactly the rows the user owns, as they are stored, each in the list
\* of its stored flag and each once.
C28_Converges ==
    \A u \in Users :
        Quiescent(u)
        => /\ RenderedRows = StoredRows(u)
           /\ Len(todoList) + Len(completedList) = Cardinality(StoredRows(u))
           /\ \A item \in Rendered : item.isCompleted = item.todo.is_complete


\* C29: every stored row has a task with at least one character that is
\* not a blank.
C29_TaskNeverBlank ==
    \A row \in todos : Trim(row.task) # <<>>


\* the Toggle-complete requests a step sends
NewToggles == { n \in NewReqs : n.kind = "update" /\ n.op = "toggle" }

\* C30: a click on a checkbox sends one update, filtered by the id of a
\* rendered item, whose is_complete is the negation of the flag that item was
\* rendered with, whatever the row holds in the table by then; no other
\* step sends a Toggle-complete.  Clicks on the same item before a re-render
\* therefore send the same value.
C30_ToggleFromRendered ==
    [][ /\ ran' = "checkboxClick" <=> NewToggles # {}
        /\ ran' = "checkboxClick" => NewReqs = NewToggles
        /\ Cardinality(NewToggles) <= 1
        /\ \A n \in NewToggles :
               \E item \in Rendered :
                   /\ n.eqId = item.todo.id
                   /\ n.body = [is_complete |-> ~item.isCompleted] ]_vars

\* a second click on a checkbox whose first update has been applied and not
\* yet rendered: the request just sent writes the value the row already has
C30_Witness ==
    /\ ran = "checkboxClick"
    /\ clicks = 2
    /\ \E r \in reqs :
        /\ r.stage = "sent" /\ r.kind = "update" /\ r.op = "toggle"
        /\ \E row \in Target(r) :
            /\ row.is_complete = r.body.is_complete
            /\ \E item \in Rendered : /\ item.todo.id = row.id
                                      /\ item.isCompleted # row.is_complete


\* the List replies with an error that a step receives
ListErrors ==
    { r \in Consumed : r.stage = "replied" /\ r.kind = "select"
                       /\ r.error # NoError }

\* C31: the step that receives the error of a List request leaves both
\* rendered lists, the views and the banner as they were, shows no alert,
\* writes the error to the console and sends no request.
C31_ListErrorKeepsLists ==
    [][ ListErrors # {}
        => /\ UNCHANGED << lists, views, newTodo >>
           /\ alerted' = NoAlert
           /\ logged'
           /\ NewReqs = {} ]_vars

\* a List request has failed while items were rendered: they still are
C31_Witness ==
    /\ ran = "fetchTodosReply"
    /\ logged
    /\ alerted = NoAlert
    /\ todoList # <<>>
    /\ completedList # <<>>


\* C32: a step that changes the display of the credential view or of the
\* task view is the delivery of a session-change notification to the
\* onAuthStateChange callback; no click handler, no continuation and no
\* reply changes them, so while the notification of a login or logout waits
\* the views stay as they were.
C32_ViewsChangeOnNotification ==
    [][ (authView' # authView \/ appView' # appView)
        => /\ Delivers
           /\ authView' = (IF Head(authEvents) = NoUser THEN "block" ELSE "none")
           /\ appView' = (IF Head(authEvents) = NoUser THEN "none" ELSE "block")
      ]_vars

\* a logout has completed and its notification is not yet delivered: the
\* session is gone and the task view is still the one shown
C32_Witness ==
    /\ ran = "logoutBtnReply"
    /\ session = NoUser
    /\ authEvents = << NoUser >>
    /\ appView = "block"
    /\ authView = "none"


\* the List requests a step sends
NewLists == { n \in NewReqs : n.kind = "select" /\ n.op = "fetchTodos" }

\* C33: the delivery of a session-change notification that carries a
\* session sends exactly one new List request, with the token of the
\* client's session, whether or not the task view was already shown for
\* that user and whatever is in flight; the delivery of one without a
\* session sends nothing.
C33_EverySessionEventLists ==
    [][ Delivers
        => IF Head(authEvents) \in Users
           THEN /\ Cardinality(NewLists) = 1
                /\ NewReqs = NewLists
                /\ \A n \in NewLists : n.token = session
                /\ reqs \subseteq reqs'
           ELSE NewReqs = {} ]_vars

\* the token of a shown session was renewed before the first List was
\* answered, and the renewal is the only counted step: two List requests
\* are in flight and the user has clicked nothing
C33_Witness ==
    /\ ran = "onAuthStateChange"
    /\ clicks = 1
    /\ appView = "block"
    /\ lastEvent = session
    /\ todos = SeedRows
    /\ Cardinality(Sent("select")) = 2


\* the identity lookups of a confirmed Delete-all that a step receives
DeleteAllLookups ==
    { r \in Consumed : r.kind = "getUser" /\ r.op = "deleteAll" }

NoUserFound == "No user found."

\* C34: the continuation of a confirmed Delete-all either is told of no
\* user, and then alerts "No user found.", sends no request at all, leaves
\* nothing of the handler in flight and changes neither table nor lists nor
\* views; or is told of a user and sends one delete filtered to that user's
\* rows.  A lookup made without a session is always told of no user.
C34_DeleteAllNoUser ==
    [][ \A r \in DeleteAllLookups :
            /\ r.token = NoUser => alerted' = NoUserFound
            /\ alerted' = NoUserFound
               => /\ NewReqs = {}
                  /\ reqs' = reqs \ {r}
                  /\ UNCHANGED << backend, lists, views >>
            /\ alerted' # NoUserFound
               => /\ r.token \in Users
                  /\ Cardinality(NewReqs) = 1
                  /\ \A n \in NewReqs : /\ n.kind = "delete"
                                        /\ n.eqUser = Id(r.token) ]_vars

\* the user logged out and, before the notification was delivered,
\* confirmed a Delete-all: no user was found, nothing is in flight and
\* every row is still stored
C34_Witness ==
    /\ ran = "deleteAllTasksBtnGotUser"
    /\ alerted = NoUserFound
    /\ session = NoUser
    /\ reqs = {}
    /\ todos = SeedRows
    /\ Rendered # {}


(***************************************************************************)
(* The configuration parser                                                *)
(***************************************************************************)
HasEq(line) == \E k \in 1..Len(line) : line[k] = "="

\* the lines of the source that are neither blank nor start with "#"
EntryLines ==
    { i \in 1..Len(envText) :
        Trim(envText[i]) # << >> /\ Head(envText[i]) # "#" }

\* the trimmed text before the first "=" of a line (all of it without one)
KeyOf(line) ==
    Trim(IF HasEq(line) THEN SubSeq(line, 1, FirstEq(line) - 1) ELSE line)

\* the trimmed text after the first "=" of a line, further "=" included
ValueOf(line) ==
    IF HasEq(line) THEN Trim(SubSeq(line, FirstEq(line) + 1, Len(line)))
    ELSE << >>

\* C35: the object loadConfig returns has exactly the keys of the lines
\* that are not blank and do not start with "#", each key the trimmed text
\* before the first "=" of its line, and holds for each key the trimmed
\* remainder of the last line with that key, "=" characters included; blank
\* lines and lines that start with "#" contribute nothing.
C35_ParserEntries ==
    ran \in {"loadConfig", "createClient"}
    => /\ DOMAIN config = { KeyOf(envText[i]) : i \in EntryLines }
       /\ \A i \in EntryLines :
              (\A j \in EntryLines :
                   j > i => KeyOf(envText[j]) # KeyOf(envText[i]))
              => config[KeyOf(envText[i])] = ValueOf(envText[i])

\* a source with the key on two lines, the last with blanks around the
\* "=" and a further "=" in its value, and a comment line between them
C35_Witness ==
    /\ ran = "loadConfig"
    /\ envText = << << KeyName, "=", "anon-key" >>,
                    << "#", UrlName, "=", "https://x.supabase.co" >>,
                    << " ", KeyName, " ", "=", " ", "anon", "=", "key", " " >> >>
    /\ DOMAIN config = { << KeyName >> }
    /\ config[<< KeyName >>] = << "anon", "=", "key" >>

====
